---------------------------- MODULE Spec2Model ----------------------------
(***************************************************************************)
(* Model of scripts/update_function_docs/update_function_docs.go: the      *)
(* release-doc updater of the kpt functions catalog.                       *)
(*                                                                         *)
(* Strings are sequences of one-character strings, so that the regular     *)
(* expressions, strings.Split and strings.Contains of the source are       *)
(* modelled by what they do to the characters.                             *)
(*                                                                         *)
(* Two specifications share the variables:                                 *)
(*   Spec     main(): one run of the command, step by step;                *)
(*   DocSpec  updateDoc(): the three rewrite rules applied to one file's   *)
(*            contents, for a release and contents drawn from bounded sets.*)
(***************************************************************************)
EXTENDS Integers, Sequences, FiniteSets, TLC

VARIABLES
    pc,         \* position in main() (Spec) or in updateDoc() (DocSpec)
    branch,     \* os.Args[1], or NoArg
    tags,       \* the tag names `git tag` listed, <<>> until listed
    tagsListed, \* whether gitTag() has been called
    fr,         \* the functionRelease under construction / constructed
    writes,     \* the os.WriteFile calls made so far: [path, before, after]
    staged,     \* git add -u has succeeded
    committed,  \* git commit has succeeded
    exitCode,   \* -1 while running, then the process exit status
    err,        \* the error main() exited with, "" if none
    file,       \* what updateDoc read from the file it is working on
    contents    \* the contents updateDoc is working on

vars == <<pc, branch, tags, tagsListed, fr, writes, staged, committed,
          exitCode, err, file, contents>>

---------------------------------------------------------------------------
(* Bounds of the model.                                                    *)

\* longest tag listing `git tag` returns
MaxTags == 2
\* longest contents of a file, counted in lexemes of Parts
MaxParts == 3

---------------------------------------------------------------------------
(* Character classes of Go's regexp syntax.                                *)

Digit == {"0", "1", "2", "3", "4", "5", "6", "7", "8", "9"}

Letter ==
    {"a", "b", "c", "d", "e", "f", "g", "h", "i", "j", "k", "l", "m",
     "n", "o", "p", "q", "r", "s", "t", "u", "v", "w", "x", "y", "z",
     "A", "B", "C", "D", "E", "F", "G", "H", "I", "J", "K", "L", "M",
     "N", "O", "P", "Q", "R", "S", "T", "U", "V", "W", "X", "Y", "Z"}

\* [-\w]
NameChar == Digit \cup Letter \cup {"_", "-"}

\* \s
WhiteSpace == {" ", "\t", "\n", "\f", "\r"}

---------------------------------------------------------------------------
(* The strings package.                                                    *)

\* the literal lit stands in s at position i
HasAt(s, i, lit) ==
    /\ i >= 1
    /\ i + Len(lit) - 1 <= Len(s)
    /\ \A k \in 1..Len(lit) : s[i + k - 1] = lit[k]

\* strings.Contains
Contains(s, sub) == \E i \in 1..(Len(s) - Len(sub) + 1) : HasAt(s, i, sub)

RECURSIVE Split(_, _)
\* strings.Split(s, c) for a one-character separator c
Split(s, c) ==
    IF \A i \in 1..Len(s) : s[i] # c
    THEN <<s>>
    ELSE LET j == CHOOSE i \in 1..Len(s) :
                      s[i] = c /\ \A k \in 1..(i - 1) : s[k] # c
         IN  <<SubSeq(s, 1, j - 1)>> \o Split(SubSeq(s, j + 1, Len(s)), c)

RECURSIVE Join(_, _)
\* strings.Join / filepath.Join of non-empty elements
Join(elems, sep) ==
    IF elems = <<>> THEN <<>>
    ELSE IF Len(elems) = 1 THEN elems[1]
    ELSE elems[1] \o sep \o Join(Tail(elems), sep)

Last(s) == s[Len(s)]

---------------------------------------------------------------------------
(* The regular expressions of lines 98-105.  A matcher returns the         *)
(* position just after the match, or 0 when there is no match at i.        *)

Unstable == <<"u", "n", "s", "t", "a", "b", "l", "e">>

RECURSIVE SkipDigits(_, _)
\* \d* at i: greedy, and never given back, since what follows is no digit
SkipDigits(s, i) ==
    IF i <= Len(s) /\ s[i] \in Digit THEN SkipDigits(s, i + 1) ELSE i

\* v\d*\.\d*
MatchMinor(s, i) ==
    IF i >= 1 /\ i <= Len(s) /\ s[i] = "v"
    THEN LET j == SkipDigits(s, i + 1)
         IN  IF j <= Len(s) /\ s[j] = "." THEN SkipDigits(s, j + 1) ELSE 0
    ELSE 0

\* v\d*\.\d*\.\d*
MatchPatch(s, i) ==
    LET j == MatchMinor(s, i)
    IN  IF j # 0 /\ j <= Len(s) /\ s[j] = "." THEN SkipDigits(s, j + 1) ELSE 0

\* versionGroup: unstable|v\d*\.\d*\.\d*|v\d*\.\d*, the first alternative
\* that matches wins
versionGroup(s, i) ==
    IF HasAt(s, i, Unstable) THEN i + Len(Unstable)
    ELSE IF MatchPatch(s, i) # 0 THEN MatchPatch(s, i)
    ELSE MatchMinor(s, i)

\* releaseBranchPattern.MatchString: [-\w]*\/(v\d*\.\d*) found anywhere
releaseBranchPattern(s) ==
    \E i \in 1..Len(s) : \E j \in i..Len(s) :
        /\ \A k \in i..(j - 1) : s[k] \in NameChar
        /\ s[j] = "/"
        /\ MatchMinor(s, j + 1) # 0

\* releaseTagPattern.MatchString: .*(go|ts)\/[-\w]*\/(v\d*\.\d*\.\d*) found
\* anywhere
releaseTagPattern(s) ==
    \E p \in 1..Len(s) :
        /\ (\A k \in 1..(p - 1) : s[k] # "\n")
        /\ (HasAt(s, p, <<"g", "o">>) \/ HasAt(s, p, <<"t", "s">>))
        /\ HasAt(s, p + 2, <<"/">>)
        /\ \E q \in (p + 3)..Len(s) :
              /\ \A k \in (p + 3)..(q - 1) : s[k] \in NameChar
              /\ s[q] = "/"
              /\ MatchPatch(s, q + 1) # 0

---------------------------------------------------------------------------
(* golang.org/x/mod/semver, for versions without pre-release or build      *)
(* suffix (the tag universe below holds no other).                         *)

\* parseInt: a non-empty digit run at i without a leading zero; the
\* position after it, or 0
ParseInt(s, i) ==
    LET j == SkipDigits(s, i)
    IN  IF j = i THEN 0
        ELSE IF s[i] = "0" /\ j > i + 1 THEN 0
        ELSE j

\* parse: vMAJOR[.MINOR[.PATCH]]
Parse(v) ==
    LET bad == [ok |-> FALSE, major |-> <<>>, minor |-> <<>>, patch |-> <<>>]
        n   == Len(v)
    IN  IF n = 0 \/ v[1] # "v" THEN bad
        ELSE LET a == ParseInt(v, 2)
             IN  IF a = 0 THEN bad
                 ELSE IF a > n
                 THEN [ok |-> TRUE, major |-> SubSeq(v, 2, a - 1),
                       minor |-> <<"0">>, patch |-> <<"0">>]
                 ELSE IF v[a] # "." THEN bad
                 ELSE LET b == ParseInt(v, a + 1)
                      IN  IF b = 0 THEN bad
                          ELSE IF b > n
                          THEN [ok |-> TRUE, major |-> SubSeq(v, 2, a - 1),
                                minor |-> SubSeq(v, a + 1, b - 1),
                                patch |-> <<"0">>]
                          ELSE IF v[b] # "." THEN bad
                          ELSE LET c == ParseInt(v, b + 1)
                               IN  IF c = 0 \/ c <= n THEN bad
                                   ELSE [ok |-> TRUE,
                                         major |-> SubSeq(v, 2, a - 1),
                                         minor |-> SubSeq(v, a + 1, b - 1),
                                         patch |-> SubSeq(v, b + 1, c - 1)]

DigitValue(d) ==
    CASE d = "0" -> 0 [] d = "1" -> 1 [] d = "2" -> 2 [] d = "3" -> 3
      [] d = "4" -> 4 [] d = "5" -> 5 [] d = "6" -> 6 [] d = "7" -> 7
      [] d = "8" -> 8 [] OTHER -> 9

RECURSIVE StringLess(_, _)
\* Go's x < y on strings of digits
StringLess(x, y) ==
    IF y = <<>> THEN FALSE
    ELSE IF x = <<>> THEN TRUE
    ELSE IF x[1] # y[1] THEN DigitValue(x[1]) < DigitValue(y[1])
    ELSE StringLess(Tail(x), Tail(y))

\* a comparison that orders digit strings as text, not as numbers
CompareIntAsText(x, y) ==
    IF x = y THEN 0 ELSE IF StringLess(x, y) THEN -1 ELSE 1

\* compareInt: shorter is smaller, equal lengths compare as text
compareInt(x, y) ==
    IF x = y THEN 0
    ELSE IF Len(x) < Len(y) THEN -1
    ELSE IF Len(x) > Len(y) THEN 1
    ELSE IF StringLess(x, y) THEN -1
    ELSE 1

\* semver.Compare(v, w): an invalid version is less than a valid one and
\* equal to another invalid one
semverCompare(v, w) ==
    LET pv == Parse(v)
        pw == Parse(w)
    IN  IF ~pv.ok /\ ~pw.ok THEN 0
        ELSE IF ~pv.ok THEN -1
        ELSE IF ~pw.ok THEN 1
        ELSE IF compareInt(pv.major, pw.major) # 0
        THEN compareInt(pv.major, pw.major)
        ELSE IF compareInt(pv.minor, pw.minor) # 0
        THEN compareInt(pv.minor, pw.minor)
        ELSE compareInt(pv.patch, pw.patch)

---------------------------------------------------------------------------
(* functionRelease and its construction.                                   *)

NoArg == <<"<", "n", "o", " ", "a", "r", "g", ">">>

\* &functionRelease{}
EmptyRelease ==
    [FunctionName |-> <<>>, MinorVersion |-> <<>>, Language |-> <<>>,
     LatestPatchVersion |-> <<>>, FunctionPath |-> <<>>, Examples |-> <<>>,
     IsContrib |-> FALSE]

\* the output of `git tag`: one tag name per line
gitTag(names) ==
    IF names = <<>> THEN <<>> ELSE Join(names, <<"\n">>) \o <<"\n">>

\* fmt.Sprintf("%s/%s", fr.FunctionName, fr.MinorVersion)
funcPattern(r) == r.FunctionName \o <<"/">> \o r.MinorVersion

\* the condition of line 171 under which a tag is not skipped
Survives(r, tag) == Contains(tag, funcPattern(r)) /\ releaseTagPattern(tag)

RECURSIVE ScanTags(_, _, _, _)
\* the loop of lines 170-181 from line k on: best is [lang, latestPatchVersion]
ScanTags(r, lines, k, best) ==
    IF k > Len(lines) THEN best
    ELSE IF ~Survives(r, lines[k]) THEN ScanTags(r, lines, k + 1, best)
    ELSE LET segments     == Split(lines[k], "/")
             patchVersion == segments[Len(segments)]
         IN  IF \/ best.latestPatchVersion = <<>>
                \/ semverCompare(patchVersion, best.latestPatchVersion) = 1
             THEN ScanTags(r, lines, k + 1,
                           [latestPatchVersion |-> patchVersion,
                            lang |-> segments[Len(segments) - 2]])
             ELSE ScanTags(r, lines, k + 1, best)

\* lines 168-187 of readLatestPatchVersion on the output of gitTag()
LatestPatch(r, out) ==
    ScanTags(r, Split(out, "\n"), 1,
             [latestPatchVersion |-> <<>>, lang |-> <<>>])


FN == <<"f", "n">>
Functions == <<"f", "u", "n", "c", "t", "i", "o", "n", "s">>
ContribDir == <<"c", "o", "n", "t", "r", "i", "b">>
ExamplesDir == <<"e", "x", "a", "m", "p", "l", "e", "s">>
Readme == <<"R", "E", "A", "D", "M", "E", ".", "m", "d">>
Slash == <<"/">>

\* lines 142-149 of newFunctionRelease: [err, fr]
parseBranch(b) ==
    IF ~releaseBranchPattern(b)
    THEN [err |-> "invalid branch format", fr |-> EmptyRelease]
    ELSE LET segments == Split(b, "/")
         IN  [err |-> "",
              fr  |-> [EmptyRelease EXCEPT
                         !.MinorVersion = segments[Len(segments)],
                         !.FunctionName = segments[Len(segments) - 1]]]

\* readLatestPatchVersion, lines 160-188, given what gitTag() returned
readLatestPatchVersion(r, tagOk, names) ==
    IF r.FunctionName = <<>> \/ r.MinorVersion = <<>>
    THEN [err |-> "missing function name and/or minor version", fr |-> r]
    ELSE IF ~tagOk THEN [err |-> "git tag failed", fr |-> r]
    ELSE LET best == LatestPatch(r, gitTag(names))
         IN  IF best.latestPatchVersion = <<>> \/ best.lang = <<>>
             THEN [err |-> "could not find matching tag for release branch",
                   fr  |-> r]
             ELSE [err |-> "",
                   fr  |-> [r EXCEPT
                              !.Language = best.lang,
                              !.LatestPatchVersion = best.latestPatchVersion]]

\* pathsToTry, lines 197-212, relative to repoBase
pathsToTry(r) ==
    << [functionPath |-> Join(<<Functions, r.Language, r.FunctionName>>, Slash),
        examplesPath |-> ExamplesDir,
        isContrib    |-> FALSE],
       [functionPath |-> Join(<<ContribDir, Functions, r.Language,
                                r.FunctionName>>, Slash),
        examplesPath |-> Join(<<ContribDir, ExamplesDir>>, Slash),
        isContrib    |-> TRUE] >>

RECURSIVE parseExamples(_, _, _, _, _)
\* the loop of lines 251-262 from url k on: [err, examples]
parseExamples(urls, k, examplesPath, dirs, acc) ==
    IF k > Len(urls) THEN [err |-> "", examples |-> acc]
    ELSE LET segments    == Split(urls[k], "/")
             exampleName == segments[Len(segments)]
             examplePath == Join(<<examplesPath, exampleName>>, Slash)
         IN  IF examplePath \notin dirs
             THEN [err |-> "example dir does not exist", examples |-> acc]
             ELSE parseExamples(urls, k + 1, examplesPath, dirs,
                      Append(acc, [ExamplePath |-> examplePath,
                                   ExampleName |-> exampleName]))

\* parseMetadata, lines 232-264: md is [ok, urls], what reading and
\* unmarshalling metadata.yaml gave
parseMetadata(r, examplesPath, dirs, md) ==
    IF r.FunctionPath = <<>>
    THEN [err |-> "expected FunctionPath in parseMetadata", fr |-> r]
    ELSE IF ~md.ok THEN [err |-> "metadata.yaml unreadable", fr |-> r]
    ELSE LET res == parseExamples(md.urls, 1, examplesPath, dirs, r.Examples)
         IN  [err |-> res.err, fr |-> [r EXCEPT !.Examples = res.examples]]

\* readDocPaths, lines 191-229: dirs are the directories that exist
readDocPaths(r, dirs, md) ==
    LET try   == pathsToTry(r)
        found == {i \in 1..Len(try) : try[i].functionPath \in dirs}
    IN  IF found = {}
        THEN [err |-> "function doc paths not found", fr |-> r]
        ELSE LET first == CHOOSE i \in found : \A j \in found : i <= j
                 r1    == [r EXCEPT !.FunctionPath = try[first].functionPath,
                                    !.IsContrib = try[first].isContrib]
             IN  parseMetadata(r1, try[first].examplesPath, dirs, md)

\* functionExamples.exampleNames, lines 122-128
exampleNames(fe) == [k \in 1..Len(fe) |-> fe[k].ExampleName]

---------------------------------------------------------------------------
(* The three rewrite rules, lines 266-299.  regexp.ReplaceAll scans left   *)
(* to right: it copies the text up to the leftmost match, writes the       *)
(* expanded template for the match and goes on after it.                   *)

\* the least element of a non-empty set of positions
Leftmost(ps) == CHOOSE p \in ps : \A q \in ps : p <= q

CatalogPrefix ==
    <<"h", "t", "t", "p", "s", ":", "/", "/", "c", "a", "t", "a", "l", "o",
      "g", ".", "k", "p", "t", ".", "d", "e", "v", "/">>

RepoPrefix ==
    <<"h", "t", "t", "p", "s", ":", "/", "/", "g", "i", "t", "h", "u", "b",
      ".", "c", "o", "m", "/", "G", "o", "o", "g", "l", "e", "C", "o", "n",
      "t", "a", "i", "n", "e", "r", "T", "o", "o", "l", "s", "/", "k", "p",
      "t", "-", "f", "u", "n", "c", "t", "i", "o", "n", "s", "-", "c", "a",
      "t", "a", "l", "o", "g", ".", "g", "i", "t", "/">>

\* regexp.MustCompile of line 268: (FunctionName)(:|/)(versionGroup)
tagPattern(r) == [name |-> r.FunctionName, seps |-> {":", "/"}]

\* tagPattern at i
MatchTag(re, s, i) ==
    LET n == Len(re.name)
    IN  IF /\ HasAt(s, i, re.name)
           /\ i + n <= Len(s)
           /\ s[i + n] \in re.seps
        THEN versionGroup(s, i + n + 1)
        ELSE 0

RECURSIVE ReplaceAllTags(_, _, _, _)
\* tagPattern.ReplaceAll from i on, template ${1}${2}<patch>
ReplaceAllTags(re, patch, s, i) ==
    LET ms == {p \in i..Len(s) : MatchTag(re, s, p) # 0}
    IN  IF ms = {} THEN SubSeq(s, i, Len(s))
        ELSE LET p == Leftmost(ms)
                 n == Len(re.name)
             IN  SubSeq(s, i, p - 1)
                   \o SubSeq(s, p, p + n - 1) \o <<s[p + n]>> \o patch
                   \o ReplaceAllTags(re, patch, s, MatchTag(re, s, p))

\* replaceTags, lines 267-273
replaceTags(r, s) ==
    ReplaceAllTags(tagPattern(r), r.LatestPatchVersion, s, 1)

\* regexp.MustCompile of line 277:
\* (https://catalog\.kpt\.dev/FunctionName/)(versionGroup)
urlPattern(r) == [group1 |-> CatalogPrefix \o r.FunctionName \o Slash]

\* urlPattern at i
MatchURL(re, s, i) ==
    IF HasAt(s, i, re.group1)
    THEN versionGroup(s, i + Len(re.group1))
    ELSE 0

RECURSIVE ReplaceAllURLs(_, _, _, _)
\* urlPattern.ReplaceAll from i on, template ${1}<minor>
ReplaceAllURLs(re, minor, s, i) ==
    LET ms == {p \in i..Len(s) : MatchURL(re, s, p) # 0}
    IN  IF ms = {} THEN SubSeq(s, i, Len(s))
        ELSE LET p == Leftmost(ms)
             IN  SubSeq(s, i, p - 1) \o re.group1 \o minor
                   \o ReplaceAllURLs(re, minor, s, MatchURL(re, s, p))

\* replaceURLs, lines 276-282
replaceURLs(r, s) == ReplaceAllURLs(urlPattern(r), r.MinorVersion, s, 1)

\* lines 289-292
exampleSubPath(r) ==
    IF r.IsContrib THEN Join(<<ContribDir, ExamplesDir>>, Slash)
    ELSE ExamplesDir

\* strings.Join(fr.Examples.exampleNames(), "|") as the alternatives of a
\* group: the one empty alternative when there are no names
exampleGroup(r) ==
    IF r.Examples = <<>> THEN <<(<<>>)>> ELSE exampleNames(r.Examples)

\* regexp.MustCompile of line 293:
\* (https://github\.com/.../kpt-functions-catalog\.git/<subpath>/)(<names>)(\s+)
kptPkgPattern(r) ==
    [group1 |-> RepoPrefix \o exampleSubPath(r) \o Slash,
     alts   |-> exampleGroup(r)]

RECURSIVE SkipSpace(_, _)
\* \s+ continued at i
SkipSpace(s, i) ==
    IF i <= Len(s) /\ s[i] \in WhiteSpace THEN SkipSpace(s, i + 1) ELSE i

\* kptPkgPattern at i: [end, name], with the first alternative after
\* which whitespace follows; end = 0 when there is no match
MatchKptPkg(re, s, i) ==
    IF ~HasAt(s, i, re.group1) THEN [end |-> 0, name |-> <<>>]
    ELSE LET j    == i + Len(re.group1)
             fits == {k \in 1..Len(re.alts) :
                         /\ HasAt(s, j, re.alts[k])
                         /\ j + Len(re.alts[k]) <= Len(s)
                         /\ s[j + Len(re.alts[k])] \in WhiteSpace}
         IN  IF fits = {} THEN [end |-> 0, name |-> <<>>]
             ELSE LET k == CHOOSE a \in fits : \A b \in fits : a <= b
                  IN  [end  |-> SkipSpace(s, j + Len(re.alts[k])),
                       name |-> re.alts[k]]

RECURSIVE ReplaceAllKptPkgs(_, _, _, _)
\* kptPkgPattern.ReplaceAll from i on, template ${1}${2}<pin>${3}
ReplaceAllKptPkgs(re, pin, s, i) ==
    LET ms == {p \in i..Len(s) : MatchKptPkg(re, s, p).end # 0}
    IN  IF ms = {} THEN SubSeq(s, i, Len(s))
        ELSE LET p == Leftmost(ms)
                 m == MatchKptPkg(re, s, p)
                 j == p + Len(re.group1) + Len(m.name)
             IN  SubSeq(s, i, p - 1)
                   \o re.group1 \o m.name \o pin \o SubSeq(s, j, m.end - 1)
                   \o ReplaceAllKptPkgs(re, pin, s, m.end)

\* an example rule that pins the minor version
replaceKptPackagesMinor(r, s) ==
    ReplaceAllKptPkgs(kptPkgPattern(r),
                      <<"@">> \o r.FunctionName \o Slash \o r.MinorVersion,
                      s, 1)

\* replaceKptPackages, lines 287-299
replaceKptPackages(r, s) ==
    ReplaceAllKptPkgs(kptPkgPattern(r),
                      <<"@">> \o r.FunctionName \o Slash
                        \o r.LatestPatchVersion,
                      s, 1)

\* lines 307-309 of updateDoc: what is written for what was read
updateDocContents(r, s) ==
    replaceKptPackages(r, replaceURLs(r, replaceTags(r, s)))


---------------------------------------------------------------------------
(* The inputs of a run: the branch argument, what `git tag` lists, the     *)
(* directories that exist, metadata.yaml and the READMEs.                  *)

BranchFnV10 == <<"f", "n", "/", "v", "1", ".", "0">>
BranchOriginFnV10 ==
    <<"o", "r", "i", "g", "i", "n", "/", "f", "n", "/", "v", "1", ".", "0">>
BranchFnV11 == <<"f", "n", "/", "v", "1", ".", "1">>
BranchFnV20 == <<"f", "n", "/", "v", "2", ".", "0">>
BranchExtra ==
    <<"f", "n", "/", "v", "1", ".", "0", "/", "e", "x", "t", "r", "a">>
BranchNoDigits == <<"f", "n", "/", "v", ".">>
BranchNoVersion == <<"f", "n">>
BranchNoName == <<"/", "v", "1", ".", "0">>
BranchMain == <<"m", "a", "i", "n">>

Branches ==
    {BranchFnV10, BranchOriginFnV10, BranchFnV11, BranchFnV20, BranchExtra,
     BranchNoDigits, BranchNoVersion, BranchNoName, BranchMain}

TagGoFn101 == <<"g", "o", "/", "f", "n", "/", "v", "1", ".", "0", ".", "1">>
TagGoFn102 == <<"g", "o", "/", "f", "n", "/", "v", "1", ".", "0", ".", "2">>
TagGoFn1010 ==
    <<"g", "o", "/", "f", "n", "/", "v", "1", ".", "0", ".", "1", "0">>
TagTsFn103 == <<"t", "s", "/", "f", "n", "/", "v", "1", ".", "0", ".", "3">>
TagGoFn1100 ==
    <<"g", "o", "/", "f", "n", "/", "v", "1", ".", "1", "0", ".", "0">>
TagGoXfn104 ==
    <<"g", "o", "/", "x", "f", "n", "/", "v", "1", ".", "0", ".", "4">>
TagBranchLike == <<"f", "n", "/", "v", "1", ".", "0">>

TagUniverse ==
    {TagGoFn101, TagGoFn102, TagGoFn1010, TagTsFn103, TagGoFn1100,
     TagGoXfn104, TagBranchLike}

\* the listings of at most MaxTags distinct tags, in any order
TagLists ==
    {l \in UNION {[1..n -> TagUniverse] : n \in 0..MaxTags} :
        \A a \in 1..Len(l) : \A b \in 1..Len(l) : a # b => l[a] # l[b]}

Ex == <<"e", "x">>
Ex2 == <<"e", "x", "2">>
Go == <<"g", "o">>
Ts == <<"t", "s">>

\* the sets of directories that may exist under repoBase
DirLayouts ==
    { {},
      {Join(<<Functions, Go, FN>>, Slash),
       Join(<<ExamplesDir, Ex>>, Slash), Join(<<ExamplesDir, Ex2>>, Slash)},
      {Join(<<ContribDir, Functions, Go, FN>>, Slash),
       Join(<<ContribDir, ExamplesDir, Ex>>, Slash)},
      {Join(<<Functions, Go, FN>>, Slash),
       Join(<<ContribDir, Functions, Go, FN>>, Slash),
       Join(<<ExamplesDir, Ex>>, Slash)},
      {Join(<<Functions, Ts, FN>>, Slash),
       Join(<<ExamplesDir, Ex>>, Slash)} }

\* an examplePackageURLs entry of metadata.yaml
ExampleURL(name) == RepoPrefix \o ExamplesDir \o Slash \o name

\* what reading and unmarshalling metadata.yaml may give
Metadata ==
    { [ok |-> FALSE, urls |-> <<>>],
      [ok |-> TRUE, urls |-> <<>>],
      [ok |-> TRUE, urls |-> <<ExampleURL(Ex)>>],
      [ok |-> TRUE, urls |-> <<ExampleURL(Ex), ExampleURL(Ex2)>>] }

V10 == <<"v", "1", ".", "0">>

\* what a README of the release branch may hold
Docs ==
    { FN \o <<":">> \o V10 \o <<".", "2">>,
      FN \o <<":">> \o Unstable \o <<"\n">>,
      CatalogPrefix \o FN \o Slash \o V10,
      CatalogPrefix \o FN \o Slash \o V10 \o <<".">> }

---------------------------------------------------------------------------
(* Spec: main(), lines 344-380.                                            *)

Init ==
    /\ pc = "start"
    /\ branch \in Branches \cup {NoArg}
    /\ tags = <<>>
    /\ tagsListed = FALSE
    /\ fr = EmptyRelease
    /\ writes = <<>>
    /\ staged = FALSE
    /\ committed = FALSE
    /\ exitCode = -1
    /\ err = ""
    /\ file = <<>>
    /\ contents = <<>>

\* exitWithErr, lines 39-42
exitWithErr(e) ==
    /\ pc' = "exit"
    /\ exitCode' = 1
    /\ err' = e

\* an error check of main() that does not stop the run
ErrIgnored(e) ==
    /\ pc' = "updateDocs"
    /\ exitCode' = -1
    /\ err' = e

\* lines 360-362: newFunctionRelease returned the error e
releaseFailed(e) == exitWithErr(e)

Goto(l) ==
    /\ pc' = l
    /\ UNCHANGED <<exitCode, err>>

\* lines 346-349
CheckArgs ==
    /\ pc = "start"
    /\ IF branch = NoArg
       THEN exitWithErr("usage: update_function_docs <RELEASE_BRANCH>")
       ELSE Goto("isCleanRepo")
    /\ UNCHANGED <<branch, tags, tagsListed, fr, writes, staged, committed,
                   file, contents>>

\* lines 350-352: the run starts from a clean or a dirty working tree
CheckClean ==
    /\ pc = "isCleanRepo"
    /\ \E clean \in BOOLEAN :
          IF clean THEN Goto("gitFetch") ELSE exitWithErr("dirty repo")
    /\ UNCHANGED <<branch, tags, tagsListed, fr, writes, staged, committed,
                   file, contents>>

\* lines 353-355
GitFetch ==
    /\ pc = "gitFetch"
    /\ \E ok \in BOOLEAN :
          IF ok THEN Goto("gitCheckout") ELSE exitWithErr("git fetch failed")
    /\ UNCHANGED <<branch, tags, tagsListed, fr, writes, staged, committed,
                   file, contents>>

\* lines 356-358
GitCheckout ==
    /\ pc = "gitCheckout"
    /\ \E ok \in BOOLEAN :
          IF ok THEN Goto("newFunctionRelease")
          ELSE exitWithErr("git checkout failed")
    /\ UNCHANGED <<branch, tags, tagsListed, fr, writes, staged, committed,
                   file, contents>>

\* newFunctionRelease, lines 142-149
ParseBranch ==
    /\ pc = "newFunctionRelease"
    /\ LET res == parseBranch(branch)
       IN  IF res.err # ""
           THEN fr' = EmptyRelease /\ releaseFailed(res.err)
           ELSE fr' = res.fr /\ Goto("readLatestPatchVersion")
    /\ UNCHANGED <<branch, tags, tagsListed, writes, staged, committed,
                   file, contents>>

\* newFunctionRelease, lines 150-152
ReadLatestPatchVersion ==
    /\ pc = "readLatestPatchVersion"
    /\ \E tagOk \in BOOLEAN : \E names \in TagLists :
          LET res    == readLatestPatchVersion(fr, tagOk, names)
              called == fr.FunctionName # <<>> /\ fr.MinorVersion # <<>>
          IN  /\ tagOk \/ names = <<>>
              /\ called \/ (tagOk /\ names = <<>>)
              /\ tagsListed' = called
              /\ tags' = IF called /\ tagOk THEN names ELSE <<>>
              /\ IF res.err # ""
                 THEN fr' = EmptyRelease /\ releaseFailed(res.err)
                 ELSE fr' = res.fr /\ Goto("readDocPaths")
    /\ UNCHANGED <<branch, writes, staged, committed, file, contents>>

\* newFunctionRelease, lines 153-156
ReadDocPaths ==
    /\ pc = "readDocPaths"
    /\ \E dirs \in DirLayouts : \E md \in Metadata :
          LET res == readDocPaths(fr, dirs, md)
          IN  IF res.err # ""
              THEN fr' = EmptyRelease /\ releaseFailed(res.err)
              ELSE fr' = res.fr /\ Goto("updateDocs")
    /\ UNCHANGED <<branch, tags, tagsListed, writes, staged, committed,
                   file, contents>>

\* the READMEs updateDocs works on, in its order (lines 317-342)
DocPaths(r) ==
    <<Join(<<r.FunctionPath, Readme>>, Slash)>>
      \o [k \in 1..Len(r.Examples) |->
            Join(<<r.Examples[k].ExamplePath, Readme>>, Slash)]

\* lines 366-368: the step after updateDocs, given isCleanRepo()
afterUpdateDocs(clean) == IF clean THEN "upToDate" ELSE "gitAdd"

\* isCleanRepo, lines 58-64, after checkout and the writes so far: git
\* diff-index compares the working tree with HEAD
isCleanRepo(ws) == \A k \in 1..Len(ws) : ws[k].after = ws[k].before

\* updateDoc, lines 302-314, on the next README of updateDocs
UpdateDoc ==
    /\ pc = "updateDocs"
    /\ Len(writes) < Len(DocPaths(fr))
    /\ \E c \in Docs : \E readOk \in BOOLEAN : \E writeOk \in BOOLEAN :
          LET path == DocPaths(fr)[Len(writes) + 1]
              new  == updateDocContents(fr, c)
          IN  IF ~readOk
              THEN /\ c = CHOOSE d \in Docs : TRUE
                   /\ writeOk
                   /\ exitWithErr("read failed")
                   /\ UNCHANGED <<writes, file, contents>>
              ELSE IF ~writeOk
              THEN /\ exitWithErr("write failed")
                   /\ file' = c
                   /\ contents' = new
                   /\ UNCHANGED writes
              ELSE /\ writes' = Append(writes, [path |-> path, before |-> c,
                                                after |-> new])
                   /\ file' = c
                   /\ contents' = new
                   /\ Goto("updateDocs")
    /\ UNCHANGED <<branch, tags, tagsListed, fr, staged, committed>>

\* lines 366-368
CheckUpdated ==
    /\ pc = "updateDocs"
    /\ Len(writes) = Len(DocPaths(fr))
    /\ IF afterUpdateDocs(isCleanRepo(writes)) = "upToDate"
       THEN exitWithErr("docs up to date")
       ELSE Goto("gitAdd")
    /\ UNCHANGED <<branch, tags, tagsListed, fr, writes, staged, committed,
                   file, contents>>

\* lines 369-371
GitAdd ==
    /\ pc = "gitAdd"
    /\ \E ok \in BOOLEAN :
          IF ok THEN staged' = TRUE /\ Goto("gitCommit")
          ELSE staged' = staged /\ exitWithErr("git add failed")
    /\ UNCHANGED <<branch, tags, tagsListed, fr, writes, committed,
                   file, contents>>

\* lines 372-376
GitCommit ==
    /\ pc = "gitCommit"
    /\ \E ok \in BOOLEAN :
          IF ok THEN committed' = TRUE /\ Goto("gitShow")
          ELSE committed' = committed /\ exitWithErr("git commit failed")
    /\ UNCHANGED <<branch, tags, tagsListed, fr, writes, staged,
                   file, contents>>

\* lines 377-380: main returns after gitShow
GitShow ==
    /\ pc = "gitShow"
    /\ \E ok \in BOOLEAN :
          IF ok THEN pc' = "exit" /\ exitCode' = 0 /\ err' = ""
          ELSE exitWithErr("git show failed")
    /\ UNCHANGED <<branch, tags, tagsListed, fr, writes, staged, committed,
                   file, contents>>

Next ==
    \/ CheckArgs
    \/ CheckClean
    \/ GitFetch
    \/ GitCheckout
    \/ ParseBranch
    \/ ReadLatestPatchVersion
    \/ ReadDocPaths
    \/ UpdateDoc
    \/ CheckUpdated
    \/ GitAdd
    \/ GitCommit
    \/ GitShow

Spec == Init /\ [][Next]_vars


---------------------------------------------------------------------------
(* DocSpec: updateDoc(), lines 302-314, one rewrite rule at a time, on     *)
(* the READMEs built from at most MaxParts lexemes, for the releases       *)
(* newFunctionRelease constructs for branch fn/v1.0 when the latest tag    *)
(* is go/fn/v1.0.1.                                                        *)

\* newFunctionRelease, lines 141-157, as one function of its inputs
newFunctionRelease(b, names, dirs, md) ==
    LET p == parseBranch(b)
    IN  IF p.err # "" THEN p
        ELSE LET l == readLatestPatchVersion(p.fr, TRUE, names)
             IN  IF l.err # "" THEN l ELSE readDocPaths(l.fr, dirs, md)

DocReleases ==
    {res.fr : res \in
        {rr \in {newFunctionRelease(BranchFnV10, <<TagGoFn101>>, dirs, md) :
                    dirs \in DirLayouts,
                    md \in {m \in Metadata : Len(m.urls) <= 1}} :
            rr.err = ""}}

\* the lexemes a README is built from
Parts ==
    { FN \o <<":">>, FN \o Slash, Unstable, V10, <<".">>, <<"1">>,
      <<".", "1">>, <<" ">>, Ex, CatalogPrefix \o FN \o Slash,
      RepoPrefix \o ExamplesDir \o Slash,
      RepoPrefix \o ContribDir \o Slash \o ExamplesDir \o Slash }

RECURSIVE Flatten(_)
Flatten(ps) == IF ps = <<>> THEN <<>> ELSE ps[1] \o Flatten(Tail(ps))

Readmes ==
    {Flatten(ps) : ps \in UNION {[1..n -> Parts] : n \in 0..MaxParts}}

DocInit ==
    /\ pc = "readFile"
    /\ branch = BranchFnV10
    /\ tags = <<TagGoFn101>>
    /\ tagsListed = TRUE
    /\ fr \in DocReleases
    /\ writes = <<>>
    /\ staged = FALSE
    /\ committed = FALSE
    /\ exitCode = -1
    /\ err = ""
    /\ file = <<>>
    /\ contents = <<>>

\* line 303
DocReadFile ==
    /\ pc = "readFile"
    /\ \E c \in Readmes : file' = c /\ contents' = c
    /\ pc' = "replaceTags"
    /\ UNCHANGED <<branch, tags, tagsListed, fr, writes, staged, committed,
                   exitCode, err>>

\* line 307
DocReplaceTags ==
    /\ pc = "replaceTags"
    /\ contents' = replaceTags(fr, contents)
    /\ pc' = "replaceURLs"
    /\ UNCHANGED <<branch, tags, tagsListed, fr, writes, staged, committed,
                   exitCode, err, file>>

\* line 308
DocReplaceURLs ==
    /\ pc = "replaceURLs"
    /\ contents' = replaceURLs(fr, contents)
    /\ pc' = "replaceKptPackages"
    /\ UNCHANGED <<branch, tags, tagsListed, fr, writes, staged, committed,
                   exitCode, err, file>>

\* line 309
DocReplaceKptPackages ==
    /\ pc = "replaceKptPackages"
    /\ contents' = replaceKptPackages(fr, contents)
    /\ pc' = "writeFile"
    /\ UNCHANGED <<branch, tags, tagsListed, fr, writes, staged, committed,
                   exitCode, err, file>>

\* line 310, and line 303 of the next run of the command on the file
DocWriteFile ==
    /\ pc = "writeFile"
    /\ file' = contents
    /\ pc' = "replaceTags"
    /\ UNCHANGED <<branch, tags, tagsListed, fr, writes, staged, committed,
                   exitCode, err, contents>>

DocNext ==
    \/ DocReadFile
    \/ DocReplaceTags
    \/ DocReplaceURLs
    \/ DocReplaceKptPackages
    \/ DocWriteFile

DocSpec == DocInit /\ [][DocNext]_vars


---------------------------------------------------------------------------
(* Properties of version resolution and of the run (Spec).                 *)

\* the last "/"-segment of a tag
PatchOf(tag) == Last(Split(tag, "/"))

RECURSIVE NumericValue(_)
\* the number a string of digits denotes
NumericValue(d) ==
    IF d = <<>> THEN 0
    ELSE 10 * NumericValue(SubSeq(d, 1, Len(d) - 1)) + DigitValue(Last(d))

\* <<major, minor, patch>> of vMAJOR.MINOR.PATCH, as numbers
VersionTriple(v) ==
    LET f == Split(SubSeq(v, 2, Len(v)), ".")
    IN  [k \in 1..3 |-> IF k <= Len(f) THEN NumericValue(f[k]) ELSE 0]

\* version a is greater than version b, major first, then minor, then patch
Newer(a, b) ==
    LET x == VersionTriple(a)
        y == VersionTriple(b)
    IN  \/ x[1] > y[1]
        \/ x[1] = y[1] /\ x[2] > y[2]
        \/ x[1] = y[1] /\ x[2] = y[2] /\ x[3] > y[3]

\* readLatestPatchVersion has returned nil and fr still holds its result
Resolved == fr.LatestPatchVersion # <<>>

\* C1: when readLatestPatchVersion succeeds, LatestPatchVersion is the
\* patch version of a listed tag that survives the filter of line 171, and
\* no surviving tag carries a numerically greater major.minor.patch,
\* whatever the order of the listing.
C1_TrueMaximum ==
    Resolved =>
        /\ \E k \in 1..Len(tags) :
              /\ Survives(fr, tags[k])
              /\ PatchOf(tags[k]) = fr.LatestPatchVersion
        /\ \A k \in 1..Len(tags) :
              Survives(fr, tags[k])
                  => ~Newer(PatchOf(tags[k]), fr.LatestPatchVersion)

\* C1 witness: v1.0.2 is listed after v1.0.10, which a comparison of the
\* text would rank below it, and v1.0.10 is selected.
C1_Witness ==
    /\ pc = "readDocPaths"
    /\ tags = <<TagGoFn1010, TagGoFn102>>
    /\ fr.LatestPatchVersion = PatchOf(TagGoFn1010)

\* s ends with suf
HasSuffix(s, suf) == HasAt(s, Len(s) - Len(suf) + 1, suf)

\* newFunctionRelease has returned fr
Released == fr.FunctionPath # <<>>

\* tag is a release of exactly r's function and minor version, published
\* under r's language, with r's patch version: it ends with
\* <language>/<FunctionName>/<MinorVersion>.<patch>
ReleaseTagOf(r, tag) ==
    LET stem == r.MinorVersion \o <<".">>
        v    == r.LatestPatchVersion
    IN  /\ r.Language \in {Go, Ts}
        /\ HasAt(v, 1, stem)
        /\ Len(v) > Len(stem)
        /\ \A k \in (Len(stem) + 1)..Len(v) : v[k] \in Digit
        /\ HasSuffix(tag, r.Language \o Slash \o r.FunctionName \o Slash \o v)

\* C2: a functionRelease that newFunctionRelease returns takes Language and
\* LatestPatchVersion from one listed tag, which is a release of exactly
\* the branch's function and minor version.
C2_OneReleaseTag ==
    Released => \E k \in 1..Len(tags) : ReleaseTagOf(fr, tags[k])

\* the errors newFunctionRelease returns
ReleaseErrors ==
    {"invalid branch format",
     "missing function name and/or minor version",
     "git tag failed",
     "could not find matching tag for release branch",
     "function doc paths not found",
     "expected FunctionPath in parseMetadata",
     "metadata.yaml unreadable",
     "example dir does not exist"}

\* C3: when newFunctionRelease returns an error, the run has ended with a
\* non-zero exit, and no README was read or written, nothing was staged and
\* nothing committed.
C3_FailsBeforeAnyWrite ==
    err \in ReleaseErrors =>
        /\ pc = "exit"
        /\ exitCode = 1
        /\ writes = <<>>
        /\ file = <<>>
        /\ contents = <<>>
        /\ ~staged
        /\ ~committed

\* C3 witness: metadata.yaml lists an example whose directory is missing,
\* after the tags were listed and the function directory was found.
C3_Witness ==
    /\ err = "example dir does not exist"
    /\ tagsListed
    /\ pc = "exit"

\* the shape <function-name>/v<MAJOR>.<MINOR> at the end of a branch name
WellFormedBranch(b) ==
    LET segs == Split(b, "/")
        v    == Last(segs)
        dots == {k \in 1..Len(v) : v[k] = "."}
    IN  /\ Len(segs) >= 2
        /\ segs[Len(segs) - 1] # <<>>
        /\ \A k \in 1..Len(segs[Len(segs) - 1]) :
              segs[Len(segs) - 1][k] \in NameChar
        /\ Len(v) >= 4
        /\ v[1] = "v"
        /\ Cardinality(dots) = 1
        /\ \A d \in dots : 2 < d /\ d < Len(v)
        /\ \A k \in 2..Len(v) : k \in dots \/ v[k] \in Digit

\* C4: a branch name that does not end in <function-name>/v<MAJOR>.<MINOR>
\* is rejected with "invalid branch format" before the tags are listed and
\* before FunctionName or MinorVersion is set from it.
C4_MalformedRejected ==
    (branch # NoArg /\ ~WellFormedBranch(branch)) =>
        /\ ~tagsListed
        /\ fr.FunctionName = <<>>
        /\ fr.MinorVersion = <<>>
        /\ err \in ReleaseErrors => err = "invalid branch format"

\* a non-empty run of digits
IsNumber(d) == Len(d) >= 1 /\ \A k \in 1..Len(d) : d[k] \in Digit

\* t is a version token: unstable, vMAJOR.MINOR.PATCH or vMAJOR.MINOR
IsVersionToken(t) ==
    \/ t = Unstable
    \/ /\ Len(t) >= 4
       /\ t[1] = "v"
       /\ LET f == Split(Tail(t), ".")
          IN  Len(f) \in {2, 3} /\ \A k \in 1..Len(f) : IsNumber(f[k])

\* the characters version tokens are written with
TokenChar == Digit \cup {".", "v", "u", "n", "s", "t", "a", "b", "l", "e"}

\* the length of the stretch of token characters of s from j on
Stretch(s, j) ==
    LET stops == {q \in j..Len(s) : s[q] \notin TokenChar}
    IN  IF stops = {} THEN Len(s) - j + 1 ELSE Leftmost(stops) - j

\* the length of the longest version token of s at j, 0 when there is none
TokenLen(s, j) ==
    LET ls == {l \in 1..Stretch(s, j) :
                  IsVersionToken(SubSeq(s, j, j + l - 1))}
    IN  IF ls = {} THEN 0 ELSE CHOOSE l \in ls : \A m \in ls : m <= l

\* the longest version token of s at j, <<>> when there is none
TokenAt(s, j) == SubSeq(s, j, j + TokenLen(s, j) - 1)

\* the positions of s where <FunctionName>, ":" or "/", and a version
\* token stand
TagRefs(r, s) ==
    LET n == Len(r.FunctionName)
    IN  {p \in 1..Len(s) :
            /\ HasAt(s, p, r.FunctionName)
            /\ p + n <= Len(s)
            /\ s[p + n] \in {":", "/"}
            /\ TokenLen(s, p + n + 1) > 0}

\* the positions of s where https://catalog.kpt.dev/<FunctionName>/ stands
CatalogRefs(r, s) ==
    {p \in 1..Len(s) :
        HasAt(s, p, CatalogPrefix \o r.FunctionName \o Slash)}

\* the names of the release's examples
ExampleSet(r) == {r.Examples[k].ExampleName : k \in 1..Len(r.Examples)}

\* the positions of s just after an example package URL of the release
\* that is followed by whitespace
PinPoints(r, s) ==
    LET g == RepoPrefix \o exampleSubPath(r) \o Slash
    IN  {q \in 1..Len(s) :
            /\ s[q] \in WhiteSpace
            /\ \E name \in ExampleSet(r) :
                  HasAt(s, q - Len(name) - Len(g), g \o name)}

\* README c holds the latest versions of release r everywhere: every
\* catalog URL carries MinorVersion, every other tag reference carries
\* LatestPatchVersion, and every example package URL is pinned
UpToDate(r, c) ==
    /\ \A p \in TagRefs(r, c) :
          LET tok == TokenAt(c, p + Len(r.FunctionName) + 1)
          IN  IF p - Len(CatalogPrefix) \in CatalogRefs(r, c)
              THEN tok = r.MinorVersion
              ELSE tok = r.LatestPatchVersion
    /\ PinPoints(r, c) = {}

\* the rewrite pass has gone through every README of the release
PassComplete == Released /\ Len(writes) = Len(DocPaths(fr))

AllUpToDate == \A k \in 1..Len(writes) : UpToDate(fr, writes[k].before)

\* the rewrite pass has changed a README
TreeDirty == \E k \in 1..Len(writes) : writes[k].after # writes[k].before

\* C9: a commit is attempted only when the rewrite pass has left the
\* working tree dirty; the process exits zero only after a commit; and when
\* every README was up to date, the pass leaves the tree clean and the run
\* ends with "docs up to date", nothing staged and nothing committed.
C9_NoOpDetection ==
    /\ (pc \in {"gitAdd", "gitCommit", "gitShow"} \/ staged \/ committed)
          => PassComplete /\ TreeDirty
    /\ exitCode = 0 => committed
    /\ (PassComplete /\ AllUpToDate) =>
          /\ ~TreeDirty
          /\ pc \in {"updateDocs", "exit"}
          /\ pc = "exit" => err = "docs up to date" /\ exitCode = 1

---------------------------------------------------------------------------
(* Properties of the rewrite rules (DocSpec).                              *)

\* C5: the tag-reference rule is idempotent on every content: applying
\* replaceTags to its own result changes nothing.
C5_TagsIdempotent ==
    replaceTags(fr, replaceTags(fr, contents)) = replaceTags(fr, contents)

RECURSIVE Sum(_, _)
\* the sum of f over S
Sum(f, S) ==
    IF S = {} THEN 0
    ELSE LET x == CHOOSE y \in S : TRUE
         IN  f[x] + Sum(f, S \ {x})

\* C6: replaceTags puts LatestPatchVersion in the place of the version
\* token of every tag reference (<FunctionName>, ":" or "/", longest
\* version token) and leaves every character outside these tokens as it
\* was and where it was relative to the others.
C6_OnlyTokensChange ==
    pc = "replaceURLs" =>
        LET n     == Len(fr.FunctionName)
            refs  == TagRefs(fr, file)
            start == [p \in refs |-> p + n + 1]
            len   == [p \in refs |-> TokenLen(file, p + n + 1)]
            grow  == [p \in refs |-> Len(fr.LatestPatchVersion) - len[p]]
            InToken(q) ==
                \E p \in refs : start[p] <= q /\ q < start[p] + len[p]
            Shift(q) == Sum(grow, {p \in refs : start[p] < q})
        IN  /\ Len(contents) = Len(file) + Shift(Len(file) + 1)
            /\ \A q \in 1..Len(file) :
                  ~InToken(q) =>
                      /\ q + Shift(q) \in 1..Len(contents)
                      /\ contents[q + Shift(q)] = file[q]
            /\ \A p \in refs :
                  HasAt(contents, start[p] + Shift(start[p]),
                        fr.LatestPatchVersion)

\* C7: after updateDoc has applied its three rules, the k-th catalog URL
\* of the function, when a version token followed it in the input, is
\* followed in the output by the version token MinorVersion.
C7_CatalogAtMinor ==
    pc = "writeFile" =>
        LET g == Len(CatalogPrefix) + Len(fr.FunctionName) + 1
            a == CatalogRefs(fr, file)
            b == CatalogRefs(fr, contents)
            Rank(S, p) == Cardinality({x \in S : x < p})
        IN  \A p \in a :
                TokenLen(file, p + g) > 0 =>
                    \E q \in b :
                        /\ Rank(b, q) = Rank(a, p)
                        /\ TokenAt(contents, q + g) = fr.MinorVersion

\* C8: replaceKptPackages inserts @<FunctionName>/<LatestPatchVersion>
\* after every example package URL of the release that is followed by
\* whitespace (so not after one followed by "@"), and changes nothing
\* else.
C8_PinInsertion ==
    LET out == replaceKptPackages(fr, contents)
        pts == PinPoints(fr, contents)
        pin == <<"@">> \o fr.FunctionName \o Slash \o fr.LatestPatchVersion
        Before(q) == Cardinality({x \in pts : x <= q})
    IN  /\ Len(out) = Len(contents) + Len(pin) * Cardinality(pts)
        /\ \A q \in 1..Len(contents) :
              /\ q + Len(pin) * Before(q) \in 1..Len(out)
              /\ out[q + Len(pin) * Before(q)] = contents[q]
        /\ \A x \in pts : HasAt(out, x + Len(pin) * (Before(x) - 1), pin)

\* the rules in the orders updateDoc does not use
TagsPkgsURLs(r, s) == replaceURLs(r, replaceKptPackages(r, replaceTags(r, s)))
PkgsTagsURLs(r, s) == replaceURLs(r, replaceTags(r, replaceKptPackages(r, s)))
URLsTagsPkgs(r, s) == replaceKptPackages(r, replaceTags(r, replaceURLs(r, s)))
URLsPkgsTags(r, s) == replaceTags(r, replaceKptPackages(r, replaceURLs(r, s)))
PkgsURLsTags(r, s) == replaceTags(r, replaceURLs(r, replaceKptPackages(r, s)))

\* C10 as stated: on every content updateDoc reads, each of the six orders
\* of the three rules gives what the order of updateDoc gives.
C10_AnyOrder ==
    pc = "replaceTags" =>
        LET fixed == updateDocContents(fr, contents)
        IN  /\ TagsPkgsURLs(fr, contents) = fixed
            /\ PkgsTagsURLs(fr, contents) = fixed
            /\ URLsTagsPkgs(fr, contents) = fixed
            /\ URLsPkgsTags(fr, contents) = fixed
            /\ PkgsURLsTags(fr, contents) = fixed

\* C10: on every content updateDoc reads, each order of the three rules in
\* which replaceTags comes before replaceURLs gives what the order of
\* updateDoc gives.
C10_TagsBeforeURLs ==
    pc = "replaceTags" =>
        LET fixed == updateDocContents(fr, contents)
        IN  /\ TagsPkgsURLs(fr, contents) = fixed
            /\ PkgsTagsURLs(fr, contents) = fixed

\* C10 witness: a README whose example package URL was pinned, so that
\* replaceTags, run after replaceKptPackages, finds the pin's
\* <FunctionName>/<LatestPatchVersion>.
C10_Witness ==
    /\ pc = "writeFile"
    /\ fr.Examples # <<>>
    /\ file = RepoPrefix \o exampleSubPath(fr) \o Slash \o Ex \o <<" ">>
    /\ contents = RepoPrefix \o exampleSubPath(fr) \o Slash \o Ex
                    \o <<"@">> \o fr.FunctionName \o Slash
                    \o fr.LatestPatchVersion \o <<" ">>
    /\ PkgsTagsURLs(fr, file) = contents

\* C11: for a release with no examples (Examples is empty),
\* replaceKptPackages returns every content unchanged: no pin is added
\* where no name of the release's example set stands.
C11_NoExamplesNoPin ==
    fr.Examples = <<>> => replaceKptPackages(fr, contents) = contents

===========================================================================
